---- MODULE Spec2Model ----
(***************************************************************************)
(* A model of the llll library (src/src/llll/__init__.py): a recursive     *)
(* nested list whose nodes are Python objects.  Nodes live in a heap so    *)
(* that two containers holding the same object are visible as such; the    *)
(* program variables T, N and X hold references into the heap.             *)
(***************************************************************************)
EXTENDS Integers, Sequences, FiniteSets, TLC

VARIABLES heap, reg, last, steps, file

vars == <<heap, reg, last, steps, file>>

(***************************************************************************)
(* Bounds of the model.                                                    *)
(***************************************************************************)
MaxInit == 2
MaxSteps == 1
MaxIdx == 3

(***************************************************************************)
(* Python values held by atomic nodes: int, str (a sequence of characters),*)
(* Fraction (reduced, positive denominator) and float (kept as the exact   *)
(* dyadic rational n/d it denotes).                                        *)
(***************************************************************************)
NoVal == [t |-> "none", n |-> 0, d |-> 1, s |-> <<>>]
IntV(i) == [t |-> "int", n |-> i, d |-> 1, s |-> <<>>]
StrV(cs) == [t |-> "str", n |-> 0, d |-> 1, s |-> cs]
FloatV(a, b) == [t |-> "float", n |-> a, d |-> b, s |-> <<>>]
\* A float outside the range the model keeps as a rational (a subnormal, a
\* long mantissa): its two 32-bit words, high in n and low in d.  It equals
\* none of the model's small numbers.
FloatBits(high, low) == [t |-> "floatbits", n |-> high, d |-> low, s |-> <<>>]

IsNum(v) == v.t \in {"int", "frac", "float"}

\* Python's == on two scalar values: numbers compare by value across the
\* numeric types, text compares with text only.
PyEq(a, b) ==
  IF IsNum(a) /\ IsNum(b) THEN a.n * b.d = b.n * a.d
  ELSE IF a.t = "str" /\ b.t = "str" THEN a.s = b.s
  ELSE IF a.t = "floatbits" /\ b.t = "floatbits" THEN a.n = b.n /\ a.d = b.d
  ELSE FALSE

(***************************************************************************)
(* Python objects passed to the library: a scalar, a list of objects, or a *)
(* reference to an llll that already exists (its heap address in v.n).     *)
(***************************************************************************)
Scalar(v) == [k |-> "scalar", v |-> v, items |-> <<>>]
PyList(xs) == [k |-> "pylist", v |-> NoVal, items |-> xs]
Ref(id) == [k |-> "ref", v |-> IntV(id), items |-> <<>>]

(***************************************************************************)
(* The value of an llll, as a tree: what its fields hold, without the      *)
(* identity of the objects.                                                *)
(***************************************************************************)
Atom(v) == [k |-> "atom", v |-> v, items |-> <<>>]
List(xs) == [k |-> "list", v |-> NoVal, items |-> xs]

(***************************************************************************)
(* Heap objects.  _init_atomic sets _items to None and _value to the       *)
(* scalar; __init__ sets _items to a list of llll objects.                 *)
(***************************************************************************)
init_atomic(v) == [k |-> "atom", v |-> v, items |-> <<>>]
ListNode(ids) == [k |-> "list", v |-> NoVal, items |-> ids]

\* A node after wrap: its _items is no list but the llll object o.
WrappedNode(v, o) == [k |-> "wrapped", v |-> v, items |-> <<o>>]

is_atomic(h, id) == h[id].k = "atom"

RECURSIVE items_of(_, _)
\* iter(self._items): the objects a loop over _items draws.  A list yields
\* its elements; an llll yields what its __iter__ yields.
items_of(h, id) ==
  IF h[id].k = "wrapped"
  THEN IF is_atomic(h, h[id].items[1]) THEN <<>> ELSE items_of(h, h[id].items[1])
  ELSE h[id].items

RECURSIVE to_llll(_, _)
RECURSIVE InitItems(_, _, _)

\* __init__'s loop: each item is normalised and appended in order.
InitItems(h, items, acc) ==
  IF items = <<>> THEN [h |-> h, ids |-> acc]
  ELSE LET r == to_llll(h, Head(items))
       IN InitItems(r.h, Tail(items), Append(acc, r.id))

\* llll of the items: a new composite whose children are the normalised items.
new_llll(h, items) ==
  LET r == InitItems(h, items, <<>>)
  IN [h |-> Append(r.h, ListNode(r.ids)), id |-> Len(r.h) + 1]

\* An llll is used as it is (the same object), a list becomes llll of its elements,
\* anything else becomes an atomic node.
to_llll(h, item) ==
  IF item.k = "ref" THEN [h |-> h, id |-> item.v.n]
  ELSE IF item.k = "pylist" THEN new_llll(h, item.items)
  ELSE [h |-> Append(h, init_atomic(item.v)), id |-> Len(h) + 1]

RECURSIVE Val(_, _)
Val(h, id) ==
  IF h[id].k = "atom" THEN Atom(h[id].v)
  ELSE List([i \in 1..Len(items_of(h, id)) |-> Val(h, items_of(h, id)[i])])

\* to_python handing out the node itself instead of a copy of its content.
to_python_by_ref(h, id) == Ref(id)

RECURSIVE to_python(_, _)
to_python(h, id) ==
  IF is_atomic(h, id) THEN Scalar(h[id].v)
  ELSE PyList([i \in 1..Len(items_of(h, id)) |->
                 to_python(h, items_of(h, id)[i])])

(***************************************************************************)
(* Keys of __getitem__ and __setitem__: an int, a str, a slice (each bound *)
(* present or None) or a tuple of keys.                                    *)
(***************************************************************************)
None == [some |-> FALSE, n |-> 0]
Some(i) == [some |-> TRUE, n |-> i]
KInt(i) == [kt |-> "int", i |-> i]
KStr(cs) == [kt |-> "str", s |-> cs]
KSlice(a, b, c) == [kt |-> "slice", start |-> a, stop |-> b, step |-> c]
KTuple(ks) == [kt |-> "tuple", tup |-> ks]

(***************************************************************************)
(* What an expression yields: an llll object (st = "llll", its address in  *)
(* id), a bare Python scalar (st = "raw"), or a raised exception           *)
(* (st = "err").  h is the heap after the expression, new objects included.*)
(***************************************************************************)
ROk(h, id) == [h |-> h, st |-> "llll", id |-> id, raw |-> NoVal, err |-> ""]
RRaw(h, v) == [h |-> h, st |-> "raw", id |-> 0, raw |-> v, err |-> ""]
RErr(h, e) == [h |-> h, st |-> "err", id |-> 0, raw |-> NoVal, err |-> e]

\* A newly constructed llll as the value of an expression.
OkNew(r) == ROk(r.h, r.id)

Min(a, b) == IF a < b THEN a ELSE b
Max(a, b) == IF a > b THEN a ELSE b

RECURSIVE items_len(_, _)
\* len(self._items): of a list its length, of an llll its __len__.
items_len(h, id) ==
  IF h[id].k = "wrapped"
  THEN IF is_atomic(h, h[id].items[1]) THEN 1 ELSE items_len(h, h[id].items[1])
  ELSE Len(h[id].items)

\* __len__
len(h, id) == IF is_atomic(h, id) THEN 1 ELSE items_len(h, id)

\* getitem_idx with Python's own 0-based positions: the key is not shifted.
getitem_idx_zero_based(n, key) ==
  LET idx == IF key < 0 THEN n + key ELSE key
  IN IF 0 <= idx /\ idx < n THEN idx ELSE -1

\* The 0-based position a 1-based key selects in a sequence of n items,
\* or -1 where __getitem__ raises IndexError.
getitem_idx(n, key) ==
  LET idx0 == IF key > 0 THEN key - 1 ELSE key
      idx == IF idx0 < 0 THEN n + idx0 ELSE idx0
  IN IF 0 <= idx /\ idx < n THEN idx ELSE -1

\* Python's list[lo:hi:step]: the 0-based positions selected, in order.
RECURSIVE PyRange(_, _, _)
PyRange(lo, hi, step) ==
  IF (step > 0 /\ lo >= hi) \/ (step < 0 /\ lo <= hi) THEN <<>>
  ELSE <<lo>> \o PyRange(lo + step, hi, step)

PySliceIndices(n, lo, hi, step) ==
  IF step > 0
  THEN PyRange(IF lo < 0 THEN Max(lo + n, 0) ELSE Min(lo, n),
               IF hi < 0 THEN Max(hi + n, 0) ELSE Min(hi, n), step)
  ELSE PyRange(IF lo < 0 THEN Max(lo + n, -1) ELSE Min(lo, n - 1),
               IF hi < 0 THEN Max(hi + n, -1) ELSE Min(hi, n - 1), step)

\* The slice branch's arithmetic: the 0-based positions of self._items that
\* self[start:stop:step] selects.
slice_bounds(n, key) ==
  LET start == IF key.start.some THEN key.start.n + 1 ELSE 1
      stop == IF key.stop.some THEN key.stop.n ELSE n + 1
      step == IF key.step.some THEN key.step.n ELSE 1
      start_idx == IF start > 0 THEN start - 1
                   ELSE IF start < 0 THEN n + start ELSE 0
      stop_idx == IF stop > 0 THEN stop - 1
                  ELSE IF stop < 0 THEN n + stop ELSE n
  IN [lo |-> start_idx, hi |-> stop_idx + 1, step |-> step]

slice_indices(n, key) ==
  LET b == slice_bounds(n, key)
  IN PySliceIndices(n, b.lo, b.hi, b.step)

\* Python's own indexing of a bare scalar, value[i] with i >= 0: a str
\* yields its character at 0-based position i, a number is not subscriptable.
PyIndex(h, v, i) ==
  IF v.t # "str" THEN RErr(h, "TypeError")
  ELSE IF i + 1 <= Len(v.s) THEN RRaw(h, StrV(<<v.s[i + 1]>>))
  ELSE RErr(h, "IndexError")

RECURSIVE eq_llll(_, _)
\* __eq__ between two llll values.
eq_llll(a, b) ==
  IF a.k = "atom" /\ b.k = "atom" THEN PyEq(a.v, b.v)
  ELSE IF a.k = "atom" \/ b.k = "atom" THEN FALSE
  ELSE IF Len(a.items) # Len(b.items) THEN FALSE
  ELSE \A i \in 1..Len(a.items) : eq_llll(a.items[i], b.items[i])

\* self == other, other any Python object: an object that is not an llll is
\* first passed to llll(other).
eq(h, id, other) ==
  LET o == IF other.k = "ref" THEN [h |-> h, id |-> other.v.n]
           ELSE new_llll(h, <<other>>)
  IN eq_llll(Val(h, id), Val(o.h, o.id))

RECURSIVE getitem(_, _, _)
RECURSIVE get_by_address(_, _, _)
RECURSIVE KeyScan(_, _, _, _)

\* expr[key] for whatever expr yielded: an llll goes through __getitem__, a
\* bare scalar through Python's own indexing.
Index(r, key) ==
  IF r.st = "err" THEN r
  ELSE IF r.st = "llll" THEN getitem(r.h, r.id, key)
  ELSE IF key.kt = "int" THEN PyIndex(r.h, r.raw, key.i)
  ELSE RErr(r.h, "TypeError")

\* The str-key loop over the children from position i on: the first child x
\* with x[1][1] == key yields x[1:]; none yields llll().
KeyScan(h, id, key, i) ==
  IF i > Len(items_of(h, id)) THEN OkNew(new_llll(h, <<>>))
  ELSE LET x == items_of(h, id)[i]
           r == Index(getitem(h, x, KInt(1)), KInt(1))
       IN IF r.st = "err" THEN r
          ELSE IF (r.st = "raw" /\ PyEq(r.raw, StrV(key.s)))
                  \/ (r.st = "llll" /\ eq(h, r.id, Scalar(StrV(key.s))))
          THEN getitem(h, x, KSlice(Some(1), None, None))
          ELSE KeyScan(h, id, key, i + 1)

\* __getitem__
getitem(h, id, key) ==
  IF key.kt = "int" /\ key.i = 0 THEN OkNew(new_llll(h, <<>>))
  ELSE IF is_atomic(h, id) THEN RRaw(h, h[id].v)
  ELSE IF key.kt = "str" THEN KeyScan(h, id, key, 1)
  ELSE IF key.kt = "slice" /\ h[id].k = "wrapped"
  THEN LET b == slice_bounds(items_len(h, id), key)
           sliced_items == getitem(h, h[id].items[1],
                                   KSlice(Some(b.lo), Some(b.hi), Some(b.step)))
       IN IF sliced_items.st = "err" THEN sliced_items
          ELSE IF sliced_items.st = "raw" THEN RErr(h, "TypeError")
          ELSE LET its == items_of(sliced_items.h, sliced_items.id)
               IN OkNew(new_llll(sliced_items.h,
                                 [j \in 1..Len(its) |->
                                    to_python(sliced_items.h, its[j])]))
  ELSE IF key.kt = "slice"
  THEN IF key.step.some /\ key.step.n = 0 THEN RErr(h, "ValueError")
       ELSE LET sel == slice_indices(items_len(h, id), key)
                r == new_llll(h, [j \in 1..Len(sel) |->
                                    to_python(h, h[id].items[sel[j] + 1])])
            IN OkNew(r)
  ELSE IF key.kt = "tuple" THEN get_by_address(h, id, key.tup)
  ELSE LET idx == getitem_idx(items_len(h, id), key.i)
       IN IF idx < 0 THEN RErr(h, "IndexError")
          ELSE IF h[id].k = "wrapped" THEN getitem(h, h[id].items[1], KInt(idx))
          ELSE ROk(h, h[id].items[idx + 1])

\* _get_by_address
get_by_address(h, id, address) ==
  IF address = <<>> THEN ROk(h, id)
  ELSE LET element == getitem(h, id, Head(address))
       IN IF Tail(address) = <<>> \/ element.st = "err" THEN element
          ELSE IF element.st = "raw" THEN RErr(element.h, "AttributeError")
          ELSE get_by_address(element.h, element.id, Tail(address))

(***************************************************************************)
(* Mutators.  Each yields the heap after the call and the exception raised *)
(* ("" for none).                                                          *)
(***************************************************************************)
Done(h) == [h |-> h, err |-> ""]
Raise(h, e) == [h |-> h, err |-> e]

\* setitem_idx without the shift from 1-based keys to 0-based positions.
setitem_idx_unshifted(n, key) ==
  LET idx == IF key < 0 THEN n + key ELSE key
  IN IF 0 <= idx /\ idx < n THEN idx ELSE -1

\* The 0-based position __setitem__ writes for an int key, -1 where it
\* raises IndexError.
setitem_idx(n, key) ==
  LET idx0 == IF key > 0 THEN key - 1 ELSE key
      idx == IF idx0 < 0 THEN n + idx0 ELSE idx0
  IN IF 0 <= idx /\ idx < n THEN idx ELSE -1

RECURSIVE setitem(_, _, _, _)
RECURSIVE set_by_address(_, _, _, _)

\* self[first]._set_by_address(rest, value)
SetBelow(h, id, first, rest, value) ==
  LET e == getitem(h, id, first)
  IN IF e.st = "err" THEN Raise(e.h, e.err)
     ELSE IF e.st = "raw" THEN Raise(e.h, "AttributeError")
     ELSE set_by_address(e.h, e.id, rest, value)

\* __setitem__
setitem(h, id, key, value) ==
  IF is_atomic(h, id) THEN Raise(h, "IndexError")
  ELSE IF key.kt = "tuple"
  THEN IF key.tup = <<>> THEN Raise(h, "IndexError")
       ELSE IF Len(key.tup) = 1 THEN setitem(h, id, key.tup[1], value)
       ELSE SetBelow(h, id, Head(key.tup), Tail(key.tup), value)
  ELSE IF key.kt # "int" THEN Raise(h, "TypeError")
  ELSE LET idx == setitem_idx(items_len(h, id), key.i)
       IN IF idx < 0 THEN Raise(h, "IndexError")
          ELSE LET r == to_llll(h, value)
               IN IF h[id].k = "wrapped"
                  THEN setitem(r.h, h[id].items[1], KInt(idx), Ref(r.id))
                  ELSE Done([r.h EXCEPT ![id].items[idx + 1] = r.id])

\* _set_by_address
set_by_address(h, id, address, value) ==
  IF Len(address) = 1 THEN setitem(h, id, address[1], value)
  ELSE SetBelow(h, id, Head(address), Tail(address), value)

RECURSIVE append(_, _, _)
\* append
append(h, id, item) ==
  IF is_atomic(h, id) THEN Raise(h, "ValueError")
  ELSE LET r == to_llll(h, item)
       IN IF h[id].k = "wrapped" THEN append(r.h, h[id].items[1], Ref(r.id))
          ELSE Done([r.h EXCEPT ![id].items = Append(@, r.id)])

\* What Python's for loop draws from an object: the elements of a list, the
\* children of a composite llll (the objects themselves), nothing from an
\* atomic llll, the characters of a str.
Iterate(h, items) ==
  IF items.k = "pylist" THEN items.items
  ELSE IF items.k = "ref"
  THEN IF is_atomic(h, items.v.n) THEN <<>>
       ELSE [i \in 1..Len(items_of(h, items.v.n)) |->
               Ref(items_of(h, items.v.n)[i])]
  ELSE [i \in 1..Len(items.v.s) |-> Scalar(StrV(<<items.v.s[i]>>))]

RECURSIVE ExtendLoop(_, _, _)
ExtendLoop(h, id, its) ==
  IF its = <<>> THEN Done(h)
  ELSE LET r == append(h, id, Head(its))
       IN IF r.err # "" THEN r ELSE ExtendLoop(r.h, id, Tail(its))

\* extend
extend(h, id, items) ==
  IF is_atomic(h, id) THEN Raise(h, "ValueError")
  ELSE IF items.k = "scalar" /\ items.v.t # "str" THEN Raise(h, "TypeError")
  ELSE ExtendLoop(h, id, Iterate(h, items))

\* One round of wrap's loop, self._items = llll(self._items): a list becomes
\* an llll of the same children inside a new llll; an llll is put inside a
\* new llll as it is; None (an atomic node's _items) becomes an atomic None
\* inside a new llll.
wrap_once(h, id) ==
  LET n == Len(h)
      inner == IF h[id].k = "list" THEN ListNode(h[id].items)
               ELSE init_atomic(NoVal)
  IN IF h[id].k = "wrapped"
     THEN [Append(h, ListNode(h[id].items)) EXCEPT
             ![id] = WrappedNode(h[id].v, n + 1)]
     ELSE [Append(Append(h, inner), ListNode(<<n + 1>>)) EXCEPT
             ![id] = WrappedNode(h[id].v, n + 2)]

RECURSIVE wrap(_, _, _)
\* wrap
wrap(h, id, n) == IF n <= 0 THEN Done(h) ELSE wrap(wrap_once(h, id), id, n - 1)

(***************************************************************************)
(* Python keeps an object while something refers to it.  Objects no        *)
(* variable reaches are dropped and the rest keep their order.             *)
(***************************************************************************)
Children(h, i) == {h[i].items[j] : j \in 1..Len(h[i].items)}

RECURSIVE Reach(_, _)
Reach(h, S) ==
  LET S2 == S \cup UNION {Children(h, i) : i \in S}
  IN IF S2 = S THEN S ELSE Reach(h, S2)

Acyclic(h) == \A i \in 1..Len(h) : i \notin Reach(h, Children(h, i))

Live(h, r) == Reach(h, {r[x] : x \in DOMAIN r} \ {0})

Rank(R, i) == Cardinality({j \in R : j <= i})

Collect(h, r) ==
  LET R == Live(h, r)
  IN [heap |-> [n \in 1..Cardinality(R) |->
                  LET i == CHOOSE i \in R : Rank(R, i) = n
                  IN [h[i] EXCEPT !.items =
                        [j \in 1..Len(h[i].items) |-> Rank(R, h[i].items[j])]]],
      reg |-> [x \in DOMAIN r |-> IF r[x] = 0 THEN 0 ELSE Rank(R, r[x])]]

RECURSIVE depth(_, _)
RECURSIVE MaxDepth(_, _, _)
\* max(item.depth() for item in self._items, default=0), from position i on.
MaxDepth(h, id, i) ==
  IF i > Len(items_of(h, id)) THEN 0
  ELSE Max(depth(h, items_of(h, id)[i]), MaxDepth(h, id, i + 1))

\* depth
depth(h, id) ==
  IF len(h, id) = 0 THEN 0
  ELSE IF is_atomic(h, id) THEN 1
  ELSE 1 + MaxDepth(h, id, 1)

(***************************************************************************)
(* Broadcast arithmetic.  The operands of the model are ints, so the       *)
(* operators are Python's int operators; int / int is routed to Fraction.  *)
(***************************************************************************)
Ops == {"add", "sub", "mul", "truediv", "mod", "pow"}

Abs(x) == IF x < 0 THEN 0 - x ELSE x

RECURSIVE Gcd(_, _)
Gcd(a, b) == IF b = 0 THEN a ELSE Gcd(b, a % b)

\* Fraction(a, b), b # 0: reduced, the sign carried by the numerator.
Fraction(a, b) ==
  LET g == Gcd(Abs(a), Abs(b))
      sg == IF b < 0 THEN -1 ELSE 1
  IN [t |-> "frac", n |-> sg * (a \div g), d |-> Abs(b) \div g, s |-> <<>>]

RECURSIVE Power(_, _)
Power(x, y) == IF y = 0 THEN 1 ELSE x * Power(x, y - 1)

\* Python's a % b on ints, b # 0: the result takes the sign of b.
PyMod(a, b) == IF b > 0 THEN a % b ELSE 0 - ((0 - a) % (0 - b))

POk(v) == [err |-> "", v |-> v]
PErr(e) == [err |-> e, v |-> NoVal]

\* The operator applied to two atomic values.
PyArith(op, x, y) ==
  CASE op = "add" -> POk(IntV(x.n + y.n))
    [] op = "sub" -> POk(IntV(x.n - y.n))
    [] op = "mul" -> POk(IntV(x.n * y.n))
    [] op = "truediv" -> IF y.n = 0 THEN PErr("ZeroDivisionError")
                         ELSE POk(Fraction(x.n, y.n))
    [] op = "mod" -> IF y.n = 0 THEN PErr("ZeroDivisionError")
                     ELSE POk(IntV(PyMod(x.n, y.n)))
    [] op = "pow" -> IF y.n >= 0 THEN POk(IntV(Power(x.n, y.n)))
                     ELSE IF x.n = 0 THEN PErr("ZeroDivisionError")
                     ELSE LET p == Power(x.n, 0 - y.n)
                          IN POk(FloatV(IF p < 0 THEN -1 ELSE 1, Abs(p)))

\* What _arithmetic_op yields: the value of the new llll, or the exception
\* raised; a ValueError carries the two lengths its message names.
AOk(t) == [err |-> "", t |-> t, lens |-> <<>>]
AErr(e, lens) == [err |-> e, t |-> List(<<>>), lens |-> lens]

\* The loops that fill new_items and end in llll of new_items: the first
\* element that raises ends the loop.
Gather(rs) ==
  IF \E i \in 1..Len(rs) : rs[i].err # ""
  THEN rs[CHOOSE i \in 1..Len(rs) :
            rs[i].err # "" /\ \A j \in 1..(i - 1) : rs[j].err = ""]
  ELSE AOk(List([i \in 1..Len(rs) |-> rs[i].t]))

\* The singleton test without the look at the child: any length-1 composite.
IsSingletonOfAny(t) == Len(t.items) = 1

\* len(x._items) == 1 and x._items[0].is_atomic()
IsSingleton(t) == Len(t.items) = 1 /\ t.items[1].k = "atom"

RECURSIVE arithmetic_op(_, _, _)
\* _arithmetic_op on the values of two llll objects.
arithmetic_op(a, b, op) ==
  IF a.k = "atom" /\ b.k = "atom"
  THEN LET r == PyArith(op, a.v, b.v)
       IN IF r.err # "" THEN AErr(r.err, <<>>) ELSE AOk(List(<<Atom(r.v)>>))
  ELSE IF a.k = "atom"
  THEN IF IsSingleton(b) THEN arithmetic_op(a, b.items[1], op)
       ELSE Gather([i \in 1..Len(b.items) |-> arithmetic_op(a, b.items[i], op)])
  ELSE IF b.k = "atom"
  THEN Gather([i \in 1..Len(a.items) |-> arithmetic_op(a.items[i], b, op)])
  ELSE IF IsSingleton(b) THEN arithmetic_op(a, b.items[1], op)
  ELSE IF IsSingleton(a) THEN arithmetic_op(a.items[1], b, op)
  ELSE IF Len(a.items) # Len(b.items)
  THEN AErr("ValueError", <<Len(a.items), Len(b.items)>>)
  ELSE Gather([i \in 1..Len(a.items) |->
                 arithmetic_op(a.items[i], b.items[i], op)])

RECURSIVE TreeToPy(_)
\* The nested list a value denotes (to_python on a value).
TreeToPy(t) ==
  IF t.k = "atom" THEN Scalar(t.v)
  ELSE PyList([i \in 1..Len(t.items) |-> TreeToPy(t.items[i])])

\* self <op> other: an operand that is not an llll is first passed to llll.
\* The result is a new llll (or the exception).
binary_op(h, id, other, op) ==
  LET o == IF other.k = "ref" THEN [h |-> h, id |-> other.v.n]
           ELSE new_llll(h, <<other>>)
      r == arithmetic_op(Val(h, id), Val(o.h, o.id), op)
  IN IF r.err # "" THEN RErr(h, r.err) @@ [lens |-> r.lens]
     ELSE OkNew(to_llll(h, TreeToPy(r.t))) @@ [lens |-> <<>>]

(***************************************************************************)
(* The native codec.  A token is a JSON value: an int or a str.            *)
(***************************************************************************)
Sentinel ==
  <<"_", "x", "_", "x", "_", "x", "_", "x", "_", "b", "a", "c", "h", "_",
    "f", "l", "o", "a", "t", "6", "4", "_", "x", "_", "x", "_", "x", "_",
    "x", "_">>

ChunkSize == 4096
TwoTo20 == 1048576
ExpBias == 1023

\* The binary exponent e of n/d > 0 and n/d scaled into [1, 2):
\* n/d = (m.n / m.d) * 2^e.
RECURSIVE Normalise(_, _, _)
Normalise(n, d, e) ==
  IF n >= 2 * d THEN Normalise(n, 2 * d, e + 1)
  ELSE IF n < d THEN Normalise(2 * n, d, e - 1)
  ELSE [n |-> n, d |-> d, e |-> e]

\* _convert_from_float: the low and high 32-bit words of the IEEE-754
\* double, for a positive float whose mantissa fits the high word.
convert_from_float(v) ==
  LET m == Normalise(v.n, v.d, 0)
  IN [low |-> 0,
      high |-> (m.e + ExpBias) * TwoTo20 + ((m.n - m.d) * TwoTo20) \div m.d]

\* _convert_to_float: the double the two words denote.
convert_to_float(low, high) ==
  LET e == (high \div TwoTo20) - ExpBias
      m == TwoTo20 + (high % TwoTo20)
  IN IF low = 0 /\ high > 0 /\ e >= -8 /\ e <= 8
     THEN LET n == IF e >= 0 THEN m * Power(2, e) ELSE m
              d == IF e >= 0 THEN TwoTo20 ELSE TwoTo20 * Power(2, 0 - e)
              g == Gcd(n, d)
          IN FloatV(n \div g, d \div g)
     ELSE FloatBits(high, low)

RECURSIVE traverse(_)
RECURSIVE TraverseFrom(_, _)
\* serialize's traverse(x): the tokens of the children of x, in order.
TraverseFrom(x, i) ==
  IF i > Len(x.items) THEN <<>>
  ELSE LET item == x.items[i]
           toks == IF item.k = "atom"
                   THEN IF item.v.t = "float"
                        THEN LET w == convert_from_float(item.v)
                             IN <<StrV(Sentinel), IntV(w.low), IntV(w.high)>>
                        ELSE <<item.v>>
                   ELSE <<StrV(<<"[">>)>> \o traverse(item) \o <<StrV(<<"]">>)>>
       IN toks \o TraverseFrom(x, i + 1)

traverse(x) == TraverseFrom(x, 1)

\* The chunks data_0000000000, data_0000000001, ... of the token list.
Chunks(data) ==
  LET num_chunks == Len(data) \div ChunkSize + 1
  IN [i \in 1..num_chunks |->
        SubSeq(data, (i - 1) * ChunkSize + 1, Min(i * ChunkSize, Len(data)))]

\* serialize, called with a codec object: the file it leaves.  json.dump
\* raises TypeError on a Fraction, after the file has been opened for
\* writing.
serialize(l) ==
  LET data == traverse(l)
  IN IF \E i \in 1..Len(data) : data[i].t = "frac"
     THEN [err |-> "TypeError", file |-> [st |-> "truncated", chunks |-> <<>>]]
     ELSE [err |-> "", file |-> [st |-> "written", chunks |-> Chunks(data)]]

RECURSIVE Concat(_)
\* The loop over data_count chunks that rebuilds the token list.
Concat(chunks) == IF chunks = <<>> THEN <<>> ELSE Head(chunks) \o Concat(Tail(chunks))

IsDigit(c) == c \in {"0", "1", "2", "3", "4", "5", "6", "7", "8", "9"}

DigitVal(c) ==
  CASE c = "0" -> 0 [] c = "1" -> 1 [] c = "2" -> 2 [] c = "3" -> 3
    [] c = "4" -> 4 [] c = "5" -> 5 [] c = "6" -> 6 [] c = "7" -> 7
    [] c = "8" -> 8 [] c = "9" -> 9

RECURSIVE ParseDigits(_, _)
\* int() of a run of digits.
ParseDigits(cs, acc) ==
  IF cs = <<>> THEN acc ELSE ParseDigits(Tail(cs), 10 * acc + DigitVal(Head(cs)))

RECURSIVE DigitsEnd(_, _)
\* The position after the longest run of digits of s that starts at i.
DigitsEnd(s, i) == IF i <= Len(s) /\ IsDigit(s[i]) THEN DigitsEnd(s, i + 1) ELSE i

\* The pattern [+-]?\d+/\d+ tried at position i of s.
MatchAt(s, i) ==
  LET signed == i <= Len(s) /\ s[i] \in {"+", "-"}
      j == IF signed THEN i + 1 ELSE i
      k == DigitsEnd(s, j)
      m == DigitsEnd(s, k + 1)
  IN [ok |-> k > j /\ k <= Len(s) /\ s[k] = "/" /\ m > k + 1,
      neg |-> signed /\ s[i] = "-",
      num |-> SubSeq(s, j, k - 1),
      den |-> SubSeq(s, k + 1, m - 1),
      end |-> m]

RECURSIVE search(_, _)
\* pat.search(item): the leftmost match from position i on.
search(s, i) ==
  IF i > Len(s)
  THEN [ok |-> FALSE, neg |-> FALSE, num |-> <<>>, den |-> <<>>, end |-> i]
  ELSE IF MatchAt(s, i).ok THEN MatchAt(s, i)
  ELSE search(s, i + 1)

\* A str token as consume appends it: a Fraction when the ratio pattern is
\* found in it, the text itself otherwise.
ratio_or_text(item) ==
  LET match == search(item.s, 1)
      num == ParseDigits(match.num, 0)
      den == ParseDigits(match.den, 0)
  IN IF ~match.ok THEN POk(item)
     ELSE IF den = 0 THEN PErr("ZeroDivisionError")
     ELSE POk(Fraction(IF match.neg THEN 0 - num ELSE num, den))

CDone(t, pos) == [err |-> "", t |-> t, pos |-> pos]
CErr(e) == [err |-> e, t |-> List(<<>>), pos |-> 0]

\* struct.pack('<II', low, high) takes two ints in 0..2^32-1.
IsWord(tok) == tok.t = "int" /\ tok.n >= 0

RECURSIVE consume(_, _, _)
\* _parse_native's consume(): l holds what has been appended so far, pos is
\* the next token of the stream.
consume(items, pos, l) ==
  IF pos > Len(items) \/ PyEq(items[pos], StrV(<<"]">>))
  THEN CDone(List(l), pos + 1)
  ELSE LET item == items[pos]
       IN IF PyEq(item, StrV(<<"[">>))
          THEN LET sub == consume(items, pos + 1, <<>>)
               IN IF sub.err # "" THEN sub
                  ELSE consume(items, sub.pos, Append(l, sub.t))
          ELSE IF PyEq(item, StrV(Sentinel))
          THEN IF pos + 2 > Len(items) THEN CErr("RuntimeError")
               ELSE IF ~(IsWord(items[pos + 1]) /\ IsWord(items[pos + 2]))
               THEN CErr("struct.error")
               ELSE consume(items, pos + 3,
                            Append(l, Atom(convert_to_float(items[pos + 1].n,
                                                            items[pos + 2].n))))
          ELSE IF item.t = "str"
          THEN LET r == ratio_or_text(item)
               IN IF r.err # "" THEN CErr(r.err)
                  ELSE consume(items, pos + 1, Append(l, Atom(r.v)))
          ELSE consume(items, pos + 1, Append(l, Atom(item)))

\* _parse_native on the content of a written file.
parse_native(f) == consume(Concat(f.chunks), 1, <<>>)

(***************************************************************************)
(* The program: three variables.  T is a tree built by llll of some items; *)
(* N is a second llll (0 while unset); X holds the llll the last           *)
(* expression returned (0 while unset).  file is the native file on disk.  *)
(***************************************************************************)
Regs == {"T", "N", "X"}

NoTree == [k |-> "none", v |-> NoVal, items |-> <<>>]
NoKey == [kt |-> "none"]
NoArg == [k |-> "none", v |-> NoVal, items |-> <<>>]
NoFile == [st |-> "absent", chunks |-> <<>>]

ValOf(h, id) == IF id = 0 THEN NoTree ELSE Val(h, id)
Snapshot(h, r) == [x \in Regs |-> ValOf(h, r[x])]

K == <<"k">>
XK == <<"x", "k">>

\* Scalars the program builds trees from.
Scalars == {Scalar(IntV(1)), Scalar(IntV(2)), Scalar(StrV(K)), Scalar(StrV(XK))}

\* Nested lists the program builds trees from.
Lists ==
  {PyList(<<>>),
   PyList(<<Scalar(StrV(K)), Scalar(IntV(1))>>),
   PyList(<<Scalar(IntV(2)), PyList(<<Scalar(IntV(1))>>)>>),
   PyList(<<PyList(<<PyList(<<Scalar(StrV(K))>>)>>), Scalar(IntV(2))>>)}

Items == Scalars \cup Lists

RECURSIVE SeqsUpTo(_, _)
SeqsUpTo(S, n) ==
  IF n = 0 THEN {<<>>}
  ELSE LET P == SeqsUpTo(S, n - 1)
       IN P \cup {Append(p, x) : p \in {q \in P : Len(q) = n - 1}, x \in S}

\* What the last operation was and what it yielded.  pre holds the value of
\* every variable before the operation.
Record(op, tgt, key, arg, st, err, raw, flag, num, pre) ==
  [op |-> op, tgt |-> tgt, key |-> key, arg |-> arg, st |-> st, err |-> err,
   raw |-> raw, flag |-> flag, num |-> num, pre |-> pre, info |-> <<>>]

Start == Record("init", "T", NoKey, NoArg, "llll", "", NoVal, FALSE, 0,
                [x \in Regs |-> NoTree])

\* T = llll of the items
InitWith(items) ==
  LET r == new_llll(<<>>, items)
  IN /\ heap = r.h
     /\ reg = [x \in Regs |-> IF x = "T" THEN r.id ELSE 0]
     /\ last = Start
     /\ steps = 0
     /\ file = NoFile

Init == \E items \in SeqsUpTo(Items, MaxInit) : InitWith(items)

\* Keys of the subscript expressions the program evaluates.
IntKeys == {KInt(i) : i \in (0 - MaxIdx - 1)..(MaxIdx + 1)}
StrKeys == {KStr(K), KStr(<<"z">>)}
SliceBounds == {None} \cup {Some(i) : i \in 1..MaxIdx}
SliceKeys == {KSlice(a, b, None) : a \in SliceBounds, b \in SliceBounds}
TupleKeys == {KTuple(<<a, b>>) : a \in {KInt(1), KStr(K)}, b \in {KInt(1), KInt(2)}}
ReadKeys == IntKeys \cup StrKeys \cup SliceKeys \cup TupleKeys

\* The variables after an expression yielded r: an llll is bound to X, an
\* exception or a bare scalar leaves X as it was.
Bind(r) == Collect(r.h, IF r.st = "llll" THEN [reg EXCEPT !["X"] = r.id] ELSE reg)

\* X = reg[tgt][key]
GetItem(tgt, key) ==
  /\ reg[tgt] # 0
  /\ LET r == getitem(heap, reg[tgt], key)
     IN /\ heap' = Bind(r).heap
        /\ reg' = Bind(r).reg
        /\ last' = Record("getitem", tgt, key, NoArg, r.st, r.err, r.raw, FALSE, 0,
                          Snapshot(heap, reg))
  /\ UNCHANGED <<steps, file>>

\* reg[tgt] == arg
Eq(tgt, arg) ==
  /\ reg[tgt] # 0
  /\ last' = Record("eq", tgt, NoKey, arg, "bool", "", NoVal,
                    eq(heap, reg[tgt], arg), 0, Snapshot(heap, reg))
  /\ UNCHANGED <<heap, reg, steps, file>>

\* reg[tgt].depth()
Depth(tgt) ==
  /\ reg[tgt] # 0
  /\ last' = Record("depth", tgt, NoKey, NoArg, "int", "", NoVal, FALSE,
                    depth(heap, reg[tgt]), Snapshot(heap, reg))
  /\ UNCHANGED <<heap, reg, steps, file>>

Mutate(op, tgt, key, arg, flag, r) ==
  /\ Acyclic(r.h)
  /\ heap' = Collect(r.h, reg).heap
  /\ reg' = Collect(r.h, reg).reg
  /\ last' = Record(op, tgt, key, arg, IF r.err = "" THEN "none" ELSE "err",
                    r.err, NoVal, flag, 0, Snapshot(heap, reg))
  /\ steps' = steps + 1
  /\ UNCHANGED file

\* reg[tgt].append(arg)
AppendOp(tgt, arg) ==
  /\ reg[tgt] # 0
  /\ Mutate("append", tgt, NoKey, arg, FALSE, append(heap, reg[tgt], arg))

\* reg[tgt].extend(arg)
ExtendOp(tgt, arg) ==
  /\ reg[tgt] # 0
  /\ arg.k = "ref" => arg.v.n # reg[tgt]
  /\ Mutate("extend", tgt, NoKey, arg, FALSE, extend(heap, reg[tgt], arg))

\* reg[tgt][key] = arg.  The record's flag tells whether reg[tgt][key]
\* could be read before the assignment.
SetItem(tgt, key, arg) ==
  /\ reg[tgt] # 0
  /\ Mutate("setitem", tgt, key, arg, getitem(heap, reg[tgt], key).st # "err",
            setitem(heap, reg[tgt], key, arg))

\* The program builds T first, with at most MaxSteps calls, and reads it
\* afterwards.
Building == last.op \in {"init", "append", "extend"}

Build ==
  \/ \E arg \in {Scalar(IntV(1)), PyList(<<>>)} :
       Building /\ steps < MaxSteps /\ AppendOp("T", arg)
  \/ \E arg \in {PyList(<<Scalar(IntV(2)), Scalar(StrV(K))>>)} :
       Building /\ steps < MaxSteps /\ ExtendOp("T", arg)

(***************************************************************************)
(* Positional indexing, comparison and depth of a tree built by            *)
(* construction, append or extend.                                         *)
(***************************************************************************)
Next ==
  \/ Build
  \/ \E key \in IntKeys : Building /\ GetItem("T", key)
  \/ \E arg \in Scalars : last.op = "getitem" /\ last.st = "llll" /\ Eq("X", arg)
  \/ Building /\ Depth("T")

Spec == Init /\ [][Next]_vars

(***************************************************************************)
(* Claims about positional indexing, comparison and depth.                 *)
(***************************************************************************)
IsIndexRead ==
  /\ last.op = "getitem"
  /\ last.tgt = "T"
  /\ last.key.kt = "int"
  /\ last.pre.T.k = "list"
  /\ Len(last.pre.T.items) >= 1

\* C1: on a composite T of length n >= 1 built by construction, append or
\* extend, T[k] for 1 <= k <= n is the k-th child object, T[-k] is the
\* child object T[n+1-k], T[0] is a new empty composite, and every other
\* int index raises IndexError; T is the same afterwards in every case.
C1_OneBasedIndexing ==
  IsIndexRead =>
    LET n == Len(last.pre.T.items)
        k == last.key.i
        t == heap[reg.T]
    IN /\ Val(heap, reg.T) = last.pre.T
       /\ Len(t.items) = n
       /\ (1 <= k /\ k <= n) => (last.st = "llll" /\ reg.X = t.items[k])
       /\ (0 - n <= k /\ k <= -1) =>
            (last.st = "llll" /\ reg.X = t.items[n + 1 + k])
       /\ k = 0 => /\ last.st = "llll"
                   /\ Val(heap, reg.X) = List(<<>>)
                   /\ reg.X \notin Reach(heap, {reg.T})
       /\ (k > n \/ k < 0 - n) => (last.st = "err" /\ last.err = "IndexError")

\* A tree of length 3, grown by append or extend, read at index -2: the
\* result is its second child.
C1_Witness ==
  /\ IsIndexRead
  /\ steps = 1
  /\ Len(last.pre.T.items) = 3
  /\ last.key.i = -2
  /\ reg.X = heap[reg.T].items[2]

\* C2: an element read out of a tree compares equal to the scalar it was
\* built from: with X = T[k] an atomic child holding s, X == s is true.
C2_ElementEqualsScalar ==
  (/\ last.op = "eq"
   /\ reg.X \in Children(heap, reg.T)
   /\ is_atomic(heap, reg.X)
   /\ last.arg = Scalar(heap[reg.X].v)) => last.flag

RECURSIVE CanonDepth(_)
\* The canonical rule: an atomic node and an empty composite have depth 0,
\* any other composite 1 + the greatest depth of its children.
CanonDepth(t) ==
  IF t.k = "atom" \/ t.items = <<>> THEN 0
  ELSE LET ds == {CanonDepth(t.items[i]) : i \in 1..Len(t.items)}
       IN 1 + CHOOSE m \in ds : \A d \in ds : d <= m

\* C8: depth() follows the canonical rule on every tree.
C8_CanonicalDepth ==
  last.op = "depth" => last.num = CanonDepth(last.pre.T)

(***************************************************************************)
(* Slices, text keys and addresses of a tree built by construction, append *)
(* or extend, and assignment through text keys.                            *)
(***************************************************************************)
TextSetKeys == {KStr(K), KTuple(<<KStr(K), KInt(1)>>), KTuple(<<KInt(1), KStr(K)>>)}

NextAccess ==
  \/ Build
  \/ \E key \in StrKeys : Building /\ GetItem("T", key)
  \/ \E key \in SliceKeys : Building /\ GetItem("T", key)
  \/ \E key \in TupleKeys : Building /\ GetItem("T", key)
  \/ \E key \in TextSetKeys : \E arg \in {Scalar(IntV(2)), Scalar(StrV(XK))} :
       Building /\ steps = 0 /\ SetItem("T", key, arg)

SpecAccess == Init /\ [][NextAccess]_vars

\* C3: slicing is 1-based with an inclusive stop: on a composite T of
\* length n, for 1 <= a <= b <= n, T[a:b] is a composite of the b-a+1
\* children a to b of T, in order.
C3_InclusiveSlice ==
  (/\ last.op = "getitem"
   /\ last.key.kt = "slice"
   /\ last.pre.T.k = "list"
   /\ last.key.start.some /\ last.key.stop.some /\ ~last.key.step.some
   /\ 1 <= last.key.start.n
   /\ last.key.start.n <= last.key.stop.n
   /\ last.key.stop.n <= Len(last.pre.T.items)) =>
     /\ last.st = "llll"
     /\ Val(heap, reg.X) =
          List(SubSeq(last.pre.T.items, last.key.start.n, last.key.stop.n))

RECURSIVE KeyLookup(_, _, _)
\* What key access is to return: the tail of the first child composite, from
\* position i on, whose first element equals the key; an empty composite
\* when there is none.
KeyLookup(t, key, i) ==
  IF i > Len(t.items) THEN List(<<>>)
  ELSE LET c == t.items[i]
       IN IF /\ c.k = "list"
             /\ c.items # <<>>
             /\ c.items[1].k = "atom"
             /\ PyEq(c.items[1].v, StrV(key))
          THEN List(Tail(c.items))
          ELSE KeyLookup(t, key, i + 1)

\* C6: key access by a text key on any composite T, whatever the kinds of
\* its children, returns the tail of the first child composite whose first
\* element equals the key, and an empty composite, without an error, when
\* no child matches.
C6_KeyAccess ==
  (/\ last.op = "getitem"
   /\ last.key.kt = "str"
   /\ last.pre.T.k = "list") =>
     /\ last.st = "llll"
     /\ Val(heap, reg.X) = KeyLookup(last.pre.T, last.key.s, 1)

RECURSIVE HasText(_)
HasText(key) ==
  \/ key.kt = "str"
  \/ key.kt = "tuple" /\ \E i \in 1..Len(key.tup) : HasText(key.tup[i])

\* T[key] == arg, evaluated in the current state.
ReadsBack(key, arg) ==
  LET r == getitem(heap, reg.T, key)
  IN \/ r.st = "llll" /\ eq(r.h, r.id, arg)
     \/ r.st = "raw" /\ arg.k = "scalar" /\ PyEq(r.raw, arg.v)

\* C7: assignment through text keys mirrors read access: when the address A
\* (a text key, or a tuple mixing positions and text keys) resolves on read,
\* T[A] = v succeeds and T[A] then yields v.
C7_KeyAssignMirrorsRead ==
  (/\ last.op = "setitem"
   /\ last.tgt = "T"
   /\ HasText(last.key)
   /\ last.flag) =>
     /\ last.err = ""
     /\ ReadsBack(last.key, last.arg)

(***************************************************************************)
(* Arithmetic between two trees of ints, and between a tree and an int.    *)
(***************************************************************************)
MaxArity == 2

ArithScalars == {Scalar(IntV(-1)), Scalar(IntV(2))}
ArithItems == ArithScalars \cup {PyList(<<Scalar(IntV(2)), Scalar(IntV(0))>>)}

\* T = llll of some items; N = llll of some items
InitArith ==
  \E a \in SeqsUpTo(ArithItems, MaxArity) : \E b \in SeqsUpTo(ArithItems, MaxArity) :
    LET t == new_llll(<<>>, a)
        n == new_llll(t.h, b)
    IN /\ heap = n.h
       /\ reg = [x \in Regs |-> IF x = "T" THEN t.id ELSE IF x = "N" THEN n.id ELSE 0]
       /\ last = Start
       /\ steps = 0
       /\ file = NoFile

\* X = reg[tgt] <op> other
Arith(tgt, op, other) ==
  /\ reg[tgt] # 0
  /\ LET r == binary_op(heap, reg[tgt], other, op)
     IN /\ heap' = Bind(r).heap
        /\ reg' = Bind(r).reg
        /\ last' = [Record("arith", tgt, [kt |-> "op", name |-> op], other, r.st,
                           r.err, NoVal, FALSE, 0, Snapshot(heap, reg))
                      EXCEPT !.info = r.lens]
  /\ UNCHANGED <<steps, file>>

NextArith ==
  \/ \E op \in Ops : last.op = "init" /\ Arith("T", op, Ref(reg.N))
  \/ \E op \in Ops : \E s \in {Scalar(IntV(2))} : last.op = "init" /\ Arith("T", op, s)

SpecArith == InitArith /\ [][NextArith]_vars

IsFlatInts(t) ==
  /\ t.k = "list"
  /\ \A i \in 1..Len(t.items) : t.items[i].k = "atom" /\ t.items[i].v.t = "int"

\* C4: broadcasting a scalar over a flat composite C of ints c1..cn, n >= 2,
\* with +, - or * returns a composite equal to llll(c1 op s, ..., cn op s):
\* n children, the k-th the atomic ck op s.
C4_ScalarBroadcastShape ==
  (/\ last.op = "arith"
   /\ last.key.name \in {"add", "sub", "mul"}
   /\ last.arg.k = "scalar"
   /\ IsFlatInts(last.pre.T)
   /\ Len(last.pre.T.items) >= 2) =>
     /\ last.st = "llll"
     /\ eq_llll(Val(heap, reg.X),
                List([i \in 1..Len(last.pre.T.items) |->
                        Atom(PyArith(last.key.name, last.pre.T.items[i].v,
                                     last.arg.v).v)]))

IsMismatch ==
  /\ last.op = "arith"
  /\ last.arg.k = "ref"
  /\ last.pre.T.k = "list"
  /\ last.pre.N.k = "list"
  /\ Len(last.pre.T.items) # Len(last.pre.N.items)
  /\ ~(Len(last.pre.T.items) = 1 /\ last.pre.T.items[1].k = "atom")
  /\ ~(Len(last.pre.N.items) = 1 /\ last.pre.N.items[1].k = "atom")

\* C5: for composites A and B of different lengths, neither a length-1
\* composite holding a single atomic, every binary operator A op B raises
\* ValueError naming both lengths, returns nothing, and leaves A and B as
\* they were.
C5_ShapeMismatch ==
  IsMismatch =>
    /\ last.st = "err"
    /\ last.err = "ValueError"
    /\ last.info = <<Len(last.pre.T.items), Len(last.pre.N.items)>>
    /\ reg.X = 0
    /\ Val(heap, reg.T) = last.pre.T
    /\ Val(heap, reg.N) = last.pre.N

\* A length-1 composite holding a composite, raised to a length-2 composite.
C5_Witness ==
  /\ IsMismatch
  /\ last.key.name = "pow"
  /\ Len(last.pre.T.items) = 1
  /\ Len(last.pre.N.items) = 2
  /\ last.err = "ValueError"

(***************************************************************************)
(* The native codec: a tree is written and read back.                      *)
(***************************************************************************)
MaxCodec == 2
HalfHigh == convert_from_float(FloatV(1, 2)).high

CodecScalars ==
  {Scalar(IntV(1)), Scalar(FloatV(1, 2)), Scalar(FloatV(9, 4)), Scalar(Fraction(1, 2)),
   Scalar(StrV(<<"a">>)), Scalar(StrV(<<"[">>)), Scalar(StrV(<<"]">>)),
   Scalar(StrV(Sentinel)), Scalar(StrV(<<"1", "/", "2">>)),
   Scalar(StrV(<<"a", "1", "/", "2">>)), Scalar(StrV(<<"1", "/", "0">>)),
   Scalar(StrV(<<"-", "4", "/", "6">>))}

CodecLists ==
  {PyList(<<>>),
   PyList(<<Scalar(IntV(1)), Scalar(StrV(<<"a">>))>>),
   PyList(<<Scalar(StrV(Sentinel)), Scalar(IntV(0)), Scalar(IntV(HalfHigh))>>)}

InitCodec ==
  \E items \in SeqsUpTo(CodecScalars \cup CodecLists, MaxCodec) : InitWith(items)

\* reg[tgt].to_file("x.llll"): line 414 passes two arguments to a function
\* of three parameters, which raises TypeError before anything is written.
ToFile(tgt) ==
  /\ reg[tgt] # 0
  /\ last' = Record("to_file", tgt, NoKey, NoArg, "err", "TypeError", NoVal, FALSE,
                    0, Snapshot(heap, reg))
  /\ UNCHANGED <<heap, reg, steps, file>>

\* Parser.serialize(codec, reg[tgt], "x.llll")
Serialize(tgt) ==
  /\ reg[tgt] # 0
  /\ LET r == serialize(Val(heap, reg[tgt]))
     IN /\ file' = r.file
        /\ last' = Record("serialize", tgt, NoKey, NoArg,
                          IF r.err = "" THEN "none" ELSE "err", r.err, NoVal,
                          FALSE, 0, Snapshot(heap, reg))
  /\ UNCHANGED <<heap, reg, steps>>

\* X = llll.from_file("x.llll")
FromFile ==
  /\ LET p == IF file.st = "written" THEN parse_native(file) ELSE CErr("")
         r == IF file.st = "absent" THEN RErr(heap, "FileNotFoundError")
              ELSE IF file.st = "truncated" THEN RErr(heap, "JSONDecodeError")
              ELSE IF p.err # "" THEN RErr(heap, p.err)
              ELSE OkNew(to_llll(heap, TreeToPy(p.t)))
     IN /\ heap' = Bind(r).heap
        /\ reg' = Bind(r).reg
        /\ last' = Record("from_file", "X", NoKey, NoArg, r.st, r.err, NoVal, FALSE,
                          0, Snapshot(heap, reg))
  /\ UNCHANGED <<steps, file>>

NextCodec ==
  \/ last.op = "init" /\ ToFile("T")
  \/ last.op = "init" /\ Serialize("T")
  \/ last.op # "from_file" /\ FromFile

SpecCodec == InitCodec /\ [][NextCodec]_vars

\* The text matches the ratio pattern from its first to its last character.
IsRatioText(v) ==
  v.t = "str" /\ MatchAt(v.s, 1).ok /\ MatchAt(v.s, 1).end = Len(v.s) + 1

RECURSIVE HasRatioText(_)
HasRatioText(t) ==
  IF t.k = "atom" THEN IsRatioText(t.v)
  ELSE \E i \in 1..Len(t.items) : HasRatioText(t.items[i])

\* C9: for every tree T of ints, floats, Fractions and text, any text
\* included, writing T to the native token stream succeeds and decoding it
\* yields a tree equal to T; the one exception is a text that matches the
\* ratio pattern.
C9_NativeRoundTrip ==
  /\ (last.op = "serialize" /\ ~HasRatioText(last.pre.T)) => last.err = ""
  /\ (/\ last.op = "from_file"
      /\ file.st = "written"
      /\ ~HasRatioText(last.pre.T)) =>
       /\ last.st = "llll"
       /\ eq_llll(Val(heap, reg.X), last.pre.T)

(***************************************************************************)
(* Sharing: a tree N that exists already is put into T, and one of the two *)
(* is changed in place afterwards.                                         *)
(***************************************************************************)
MaxAlias == 2

AliasItems == {Scalar(IntV(1)), PyList(<<Scalar(IntV(2))>>)}

\* N = llll of the items
InitAlias ==
  \E items \in SeqsUpTo(AliasItems, MaxInit) :
    LET n == new_llll(<<>>, items)
    IN /\ heap = n.h
       /\ reg = [x \in Regs |-> IF x = "N" THEN n.id ELSE 0]
       /\ last = Start
       /\ steps = 0
       /\ file = NoFile

\* reg[tgt] = llll of the items
Construct(tgt, items) ==
  /\ LET r == new_llll(heap, items)
         c == Collect(r.h, [reg EXCEPT ![tgt] = r.id])
     IN /\ heap' = c.heap
        /\ reg' = c.reg
        /\ last' = Record("construct", tgt, NoKey, NoArg, "llll", "", NoVal, FALSE,
                          0, Snapshot(heap, reg))
  /\ UNCHANGED <<steps, file>>

Nine == Scalar(IntV(9))

NextAlias ==
  \/ \E items \in {<<Ref(reg.N)>>, <<Scalar(IntV(1)), Ref(reg.N)>>,
                   <<PyList(<<Scalar(IntV(1))>>)>>} :
       last.op = "init" /\ Construct("T", items)
  \/ last.op = "construct" /\ AppendOp("T", Ref(reg.N))
  \/ last.op = "construct" /\ ExtendOp("T", Ref(reg.N))
  \/ last.op = "construct" /\ SetItem("T", KInt(1), Ref(reg.N))
  \/ \E key \in {KInt(1), KInt(2)} :
       reg.T # 0 /\ reg.X = 0 /\ last.op # "getitem" /\ GetItem("T", key)
  \/ \E tgt \in {"N", "X"} : reg.T # 0 /\ steps < MaxAlias /\ AppendOp(tgt, Nine)
  \/ \E tgt \in {"N", "X"} :
       reg.T # 0 /\ steps < MaxAlias /\ ExtendOp(tgt, PyList(<<Nine>>))
  \/ \E tgt \in {"N", "X"} :
       reg.T # 0 /\ steps < MaxAlias /\ SetItem(tgt, KInt(1), Nine)

SpecAlias == InitAlias /\ [][NextAlias]_vars

IsInPlace == last.op \in {"append", "extend", "setitem"} /\ last.err = ""

\* C10: T owns a copy of whatever was put into it: an append, extend or
\* assignment made through N leaves the content of T as it was, and one
\* made through X, a child read out of T, leaves the content of N as it
\* was.
C10_ExclusiveOwnership ==
  /\ (IsInPlace /\ last.tgt = "N") => Val(heap, reg.T) = last.pre.T
  /\ (IsInPlace /\ last.tgt = "X") => Val(heap, reg.N) = last.pre.N

(***************************************************************************)
(* Wrapping: T is built, wrapped n times, and read by position.            *)
(***************************************************************************)
MaxWrap == 2

\* reg[tgt].wrap(n)
Wrap(tgt, n) ==
  /\ reg[tgt] # 0
  /\ LET r == wrap(heap, reg[tgt], n)
         c == Collect(r.h, reg)
     IN /\ heap' = c.heap
        /\ reg' = c.reg
        /\ last' = Record("wrap", tgt, NoKey, NoArg, "none", "", NoVal, FALSE, n,
                          Snapshot(heap, reg))
  /\ UNCHANGED <<steps, file>>

\* The address (1, ..., 1) of n ones.
Ones(n) == [i \in 1..n |-> KInt(1)]

WrapReadKeys == {KInt(1), KInt(-1), KInt(2), KTuple(Ones(2))}

NextWrap ==
  \/ Build
  \/ \E n \in 0..MaxWrap : Building /\ Wrap("T", n)
  \/ \E key \in WrapReadKeys : last.op = "wrap" /\ GetItem("T", key)

SpecWrap == Init /\ [][NextWrap]_vars

\* What T[1]...[1], the index 1 applied n times, yields on the tree at T.
UnwrapRead(n) == get_by_address(heap, reg.T, Ones(n))

\* C11: after T.wrap(n), n >= 1, on a composite T, T has one child and the
\* index 1 applied n times yields a composite equal to what T held before
\* the call; wrap(0) leaves T as it was.
C11_WrapAddressable ==
  last.op = "wrap" =>
    /\ last.num = 0 => (Val(heap, reg.T) = last.pre.T /\ heap[reg.T].k = "list")
    /\ last.num >= 1 =>
         /\ len(heap, reg.T) = 1
         /\ UnwrapRead(last.num).st = "llll"
         /\ eq_llll(Val(UnwrapRead(last.num).h, UnwrapRead(last.num).id), last.pre.T)

(***************************************************************************)
(* Assignment by position: T is built, then T[A] = v for an index or an    *)
(* address A of non-zero indices.                                          *)
(***************************************************************************)
AssignKeys ==
  {KInt(i) : i \in {1, 2, 3, -1}}
    \cup {KTuple(<<KInt(a), KInt(b)>>) : a \in {1, -1}, b \in {1, 2, -1}}
    \cup {KTuple(<<KInt(1), KInt(1), KInt(1)>>)}

AssignValues == {Scalar(IntV(9)), PyList(<<Scalar(IntV(9)), PyList(<<Scalar(IntV(8))>>)>>)}

NextAssign ==
  \/ Build
  \/ \E key \in AssignKeys : \E arg \in AssignValues :
       Building /\ SetItem("T", key, arg)

SpecAssign == Init /\ [][NextAssign]_vars

\* The indices of a key: of a single index, or of an address.
Addr(key) == IF key.kt = "int" THEN <<key.i>> ELSE [i \in 1..Len(key.tup) |-> key.tup[i].i]

\* The 1-based position index k names among n children; 0 when out of range.
Pos(n, k) ==
  LET p == IF k > 0 THEN k ELSE n + 1 + k
  IN IF 1 <= p /\ p <= n THEN p ELSE 0

RECURSIVE Walk(_, _)
\* The positions address A passes through in tree t, each step taken from a
\* composite to one of its children; ok is false when a step leaves the
\* tree or is taken from an atomic.
Walk(t, A) ==
  IF A = <<>> THEN [ok |-> TRUE, path |-> <<>>]
  ELSE IF t.k # "list" \/ Pos(Len(t.items), Head(A)) = 0
  THEN [ok |-> FALSE, path |-> <<>>]
  ELSE LET p == Pos(Len(t.items), Head(A))
           w == Walk(t.items[p], Tail(A))
       IN [ok |-> w.ok, path |-> <<p>> \o w.path]

RECURSIVE Replace(_, _, _)
\* Tree t with the subtree at path replaced by new, all else as it was.
Replace(t, path, new) ==
  IF path = <<>> THEN new
  ELSE List([t.items EXCEPT ![Head(path)] = Replace(@, Tail(path), new)])

\* The normalised node of a raw value.
Norm(v) == Val(to_llll(<<>>, v).h, to_llll(<<>>, v).id)

IsAssign == last.op = "setitem" /\ last.tgt = "T"

\* T[A] now reads as the node of v, and T is what it was with the subtree
\* at A replaced by it: no length changed and no other position changed.
AssignedExactly ==
  LET r == getitem(heap, reg.T, last.key)
      w == Walk(last.pre.T, Addr(last.key))
  IN /\ last.err = ""
     /\ r.st = "llll"
     /\ Val(r.h, r.id) = Norm(last.arg)
     /\ w.ok
     /\ Val(heap, reg.T) = Replace(last.pre.T, w.path, Norm(last.arg))

MaxSliceSteps == 2

SliceItems == {Scalar(IntV(1)), PyList(<<Scalar(IntV(2)), PyList(<<Scalar(IntV(1))>>)>>)}

InitSlice == \E items \in SeqsUpTo(SliceItems, MaxInit) : InitWith(items)

ViewKeys ==
  {KSlice(None, None, None), KSlice(Some(0), Some(1), None),
   KSlice(Some(1), None, None), KSlice(None, None, Some(-1)),
   KSlice(Some(-2), Some(2), Some(1))}

\* reg[dst] = reg[tgt][key]
Take(dst, tgt, key) ==
  /\ reg[tgt] # 0
  /\ LET r == getitem(heap, reg[tgt], key)
         c == Collect(r.h, IF r.st = "llll" THEN [reg EXCEPT ![dst] = r.id] ELSE reg)
     IN /\ heap' = c.heap
        /\ reg' = c.reg
        /\ last' = Record("getitem", tgt, key, NoArg, r.st, r.err, r.raw, FALSE, 0,
                          Snapshot(heap, reg))
  /\ UNCHANGED <<steps, file>>

\* reg[tgt].wrap(1), counted among the changes made in place.
WrapOp(tgt) ==
  /\ reg[tgt] # 0
  /\ Mutate("wrap", tgt, NoKey, NoArg, FALSE, wrap(heap, reg[tgt], 1))

MaySlice == reg.X # 0 /\ steps < MaxSliceSteps

NextSlice ==
  \/ last.op = "init" /\ Wrap("T", 1)
  \/ \E key \in ViewKeys : reg.X = 0 /\ Take("X", "T", key)
  \/ \E key \in {KInt(1), KInt(-1)} :
       last.op = "getitem" /\ last.tgt = "T" /\ Take("N", "X", key)
  \/ \E tgt \in Regs : MaySlice /\ AppendOp(tgt, Nine)
  \/ MaySlice /\ ExtendOp("X", PyList(<<Nine>>))
  \/ \E tgt \in {"T", "N"} : MaySlice /\ SetItem(tgt, KInt(1), Nine)
  \/ MaySlice /\ SetItem("X", KTuple(<<KInt(1), KInt(-1)>>), PyList(<<Nine>>))
  \/ \E tgt \in {"T", "X"} : MaySlice /\ WrapOp(tgt)

SpecSlice == InitSlice /\ [][NextSlice]_vars

IsChange == last.op \in {"append", "extend", "setitem", "wrap"}

\* C13: the result X of a slice of T shares no node with T; a change made
\* in place to X or to its child N leaves T as it was, and a change made
\* to T leaves X as it was.
C13_SliceIsNoView ==
  reg.X # 0 =>
    /\ Reach(heap, {reg.X}) \cap Reach(heap, {reg.T}) = {}
    /\ (IsChange /\ last.tgt \in {"X", "N"}) => Val(heap, reg.T) = last.pre.T
    /\ (IsChange /\ last.tgt = "T") => Val(heap, reg.X) = last.pre.X

\* A child of a slice of a wrapped tree was appended to: the slice shows
\* the change.
C13_Witness ==
  /\ reg.X # 0
  /\ heap[reg.T].k = "wrapped"
  /\ last.op = "append"
  /\ last.tgt = "N"
  /\ last.err = ""
  /\ Val(heap, reg.X) # last.pre.X

(***************************************************************************)
(* Ordering: T < N, T <= N, T > N, T >= N.                                 *)
(***************************************************************************)
MaxCmp == 2

\* ord(c) of a lower-case letter, up to a constant.
Ord(c) ==
  LET Alphabet ==
        <<"a", "b", "c", "d", "e", "f", "g", "h", "i", "j", "k", "l", "m", "n",
          "o", "p", "q", "r", "s", "t", "u", "v", "w", "x", "y", "z">>
  IN CHOOSE i \in 1..Len(Alphabet) : Alphabet[i] = c

RECURSIVE StrCmp(_, _)
\* Python's ordering of two str: -1, 0 or 1.
StrCmp(a, b) ==
  IF a = <<>> /\ b = <<>> THEN 0
  ELSE IF a = <<>> THEN -1
  ELSE IF b = <<>> THEN 1
  ELSE IF Ord(Head(a)) < Ord(Head(b)) THEN -1
  ELSE IF Ord(Head(a)) > Ord(Head(b)) THEN 1
  ELSE StrCmp(Tail(a), Tail(b))

OpHolds(op, c) ==
  CASE op = "lt" -> c < 0
    [] op = "le" -> c <= 0
    [] op = "gt" -> c > 0
    [] op = "ge" -> c >= 0

BOk(b) == [err |-> "", b |-> b]
BErr(e) == [err |-> e, b |-> FALSE]

\* self._value <op> other._value: numbers order by value, str by
\* characters, and Python raises TypeError between a str and a number.
PyOrder(op, x, y) ==
  IF IsNum(x) /\ IsNum(y) THEN BOk(OpHolds(op, x.n * y.d - y.n * x.d))
  ELSE IF x.t = "str" /\ y.t = "str" THEN BOk(OpHolds(op, StrCmp(x.s, y.s)))
  ELSE BErr("TypeError")

RECURSIVE order_llll(_, _, _, _)
\* __lt__, __le__, __gt__, __ge__ on two llll values.  i = 0 is the call;
\* i >= 1 is all(...) over the zipped children from position i on, which
\* stops at the first false and lets an exception through.
order_llll(op, a, b, i) ==
  IF i = 0
  THEN IF a.k = "atom" /\ b.k = "atom" THEN PyOrder(op, a.v, b.v)
       ELSE IF a.k = "atom" \/ b.k = "atom" THEN BOk(FALSE)
       ELSE IF Len(a.items) # Len(b.items) THEN BOk(FALSE)
       ELSE order_llll(op, a, b, 1)
  ELSE IF i > Len(a.items) THEN BOk(TRUE)
  ELSE LET r == order_llll(op, a.items[i], b.items[i], 0)
       IN IF r.err # "" \/ ~r.b THEN r ELSE order_llll(op, a, b, i + 1)

\* self <op> other, other any Python object: an object that is not an llll
\* is first passed to llll(other).
order(h, id, other, op) ==
  LET o == IF other.k = "ref" THEN [h |-> h, id |-> other.v.n]
           ELSE new_llll(h, <<other>>)
  IN order_llll(op, Val(h, id), Val(o.h, o.id), 0)

CmpItems ==
  {Scalar(IntV(1)), Scalar(IntV(2)), Scalar(StrV(K)), PyList(<<Scalar(IntV(1))>>),
   PyList(<<Scalar(IntV(2)), PyList(<<Scalar(StrV(XK))>>)>>)}

\* T = llll of some items; N = llll of some items
InitCmp ==
  \E a \in SeqsUpTo(CmpItems, MaxCmp) : \E b \in SeqsUpTo(CmpItems, MaxCmp) :
    LET t == new_llll(<<>>, a)
        n == new_llll(t.h, b)
    IN /\ heap = n.h
       /\ reg = [x \in Regs |-> IF x = "T" THEN t.id ELSE IF x = "N" THEN n.id ELSE 0]
       /\ last = Start
       /\ steps = 0
       /\ file = NoFile

\* reg[tgt] <op> other
Compare(tgt, op, other) ==
  /\ reg[tgt] # 0
  /\ LET r == order(heap, reg[tgt], other, op)
     IN last' = Record("cmp", tgt, [kt |-> "op", name |-> op], other,
                       IF r.err = "" THEN "bool" ELSE "err", r.err, NoVal, r.b, 0,
                       Snapshot(heap, reg))
  /\ UNCHANGED <<heap, reg, steps, file>>

NextCmp ==
  \/ \E op \in {"lt", "le", "gt", "ge"} : last.op = "init" /\ Compare("T", op, Ref(reg.N))
  \/ \E op \in {"lt", "le", "gt", "ge"} : last.op = "init" /\ Compare("T", op, Scalar(IntV(1)))

SpecCmp == InitCmp /\ [][NextCmp]_vars

RECURSIVE ShapesDiffer(_, _)
\* An atomic faces a composite, or two composites differ in length, here or
\* at some pair of corresponding children.
ShapesDiffer(a, b) ==
  \/ a.k # b.k
  \/ /\ a.k = "list"
     /\ \/ Len(a.items) # Len(b.items)
        \/ \E i \in 1..Len(a.items) : ShapesDiffer(a.items[i], b.items[i])

\* C14: when the shapes of T and N differ anywhere, each of T < N, T <= N,
\* T > N, T >= N evaluates to false and raises nothing.
C14_MismatchIsFalse ==
  (/\ last.op = "cmp"
   /\ last.arg.k = "ref"
   /\ ShapesDiffer(last.pre.T, last.pre.N)) =>
     /\ last.st = "bool"
     /\ last.flag = FALSE

====
